---- MODULE Spec2Model ----
(***************************************************************************)
(* The node-spring simulation of pocurve-ui/antigravity (heptapod-art):    *)
(* the two PhysicsWorld classes of Physics.js, the FIFO variant (lines     *)
(* 4-366) and the fade variant (lines 439-678).                            *)
(*                                                                         *)
(* Numbers are fixed point.  Lengths are hundredths of a physics unit,     *)
(* time is ticks of 1/60 s (the fixed step of world.step), a value of      *)
(* Math.random() is a number of tenths, and a quotient is truncated        *)
(* toward zero.  Every body has z = 0 in the source (no force, impulse or  *)
(* scatter has a z component), and a vector keeps its z field.             *)
(***************************************************************************)
EXTENDS Integers, Sequences, FiniteSets, TLC

(***************************************************************************)
(* Bounds of the model.  The capacities are 100 in the source              *)
(* (Physics.js:24 and Physics.js:458); the model runs the same code with   *)
(* a small capacity so that eviction is reached within a few spawns.       *)
(***************************************************************************)
MAX_NODE_CAPACITY == 3

MAX_ACTIVE_NODES == 3

\* addNode calls of a behaviour that fills the simulation past capacity.
MaxBodies == 5

\* addNode calls of a behaviour that moves the spawn center.
FewBodies == 2

\* finalizeCluster calls of a behaviour.
MaxFinalize == 2

\* step calls of a behaviour.
MaxSteps == 2

\* Calls of the other operations (applyMouseInteraction, applyIdleMotion,
\* getCentroid, reset, crystallize, shiftOrigin) of a behaviour.
MaxOther == 1

\* Ticks of frames the behaviours that go on stepping run for (five seconds).
LiveTicks == 300

\* this.MAX_NODES of the renderers, the slots of the uNodes buffer: 200 in
\* InkRenderer.js:8 and 110 in the vec4 renderer, both above the capacity of
\* the simulation they draw.
MAX_NODES == 4

\* The calls a behaviour may make, per kind: a behaviour is the run of one
\* of these profiles in any order.
Profile(a, f, s, o) == [add |-> a, finalize |-> f, step |-> s, other |-> o]

Profiles(v) ==
    IF v = "fifo"
    THEN {Profile(MaxBodies, 0, MaxSteps, MaxOther),
          Profile(FewBodies, MaxFinalize, 0, MaxOther),
          Profile(MaxBodies - 1, 1, 0, 0),
          Profile(1, 1, MaxSteps, MaxOther)}
    ELSE {Profile(MaxBodies, 0, MaxSteps, MaxOther),
          Profile(MAX_ACTIVE_NODES + 1, 0, 1, MaxOther)}

(***************************************************************************)
(* Input sets.                                                             *)
(***************************************************************************)
\* Values of Math.random(), in tenths: 0 <= r < 1.
Rand == {0, 5, 9}

\* The permutation tables new SimplexNoise() may draw (Physics.js:41).
Seeds == {0, 1}

\* The pairs of Math.random() values addNode draws for the scatter in x and y.
ScatterDraws == {<<0, 5>>, <<9, 0>>}

(***************************************************************************)
(* Vectors (CANNON.Vec3).                                                  *)
(***************************************************************************)
Vec3(a, b, c) == [x |-> a, y |-> b, z |-> c]

Zero3 == Vec3(0, 0, 0)

vadd(u, v) == Vec3(u.x + v.x, u.y + v.y, u.z + v.z)

vsub(u, v) == Vec3(u.x - v.x, u.y - v.y, u.z - v.z)

\* Truncating division (the sign of the quotient follows the dividend).
Quot(a, b) == IF a >= 0 THEN a \div b ELSE -((-a) \div b)

Min(a, b) == IF a <= b THEN a ELSE b

\* One statement after another: x is computed, then F of its value.
Then(x, F(_)) == CHOOSE r \in {F(v) : v \in {x}} : TRUE

(***************************************************************************)
(* State.                                                                  *)
(***************************************************************************)
VARIABLES
    variant,              \* "fifo" (Physics.js:4-366) or "fade" (439-678)
    nodes,                \* this.nodes: sequence of node records
    springs,              \* this.springs: sequence of CANNON.Spring records
    bodies,               \* the CANNON.Body objects still referenced, by identity
    world,                \* this.world.bodies: identities of the registered bodies
    currentClusterID,     \* this.currentClusterID
    spawnCenter,          \* this.spawnCenter
    currentSpawnOrigin,   \* this.currentSpawnOrigin: {} is undefined
    lastSymbolNodeCount,  \* this.lastSymbolNodeCount: {} is undefined
    isCrystallized,       \* this.isCrystallized
    time,                 \* this.time, in ticks
    simplex,              \* this.simplex: the permutation table it drew
    phantomCursors,       \* positions of this.phantomCursors
    nextBody,             \* identity of the next body allocated (spawn order)
    spawnCount,           \* addNode calls since construction or the last reset
    lastOp,               \* the public operation that ran last
    thrown,               \* whether that operation raised an error
    arg,                  \* the argument it was given ({} when it takes none)
    returned,             \* what it returned (getCentroid), {} otherwise
    budget,               \* calls the behaviour may still make, per kind
    frame,                \* where App.animate is, and its deltaTime
    renderer,             \* the InkRenderer class in use: "vec3" or "vec4"
    uniforms              \* this.uniforms of the renderer: uTime, count, uNodes

vars == <<variant, nodes, springs, bodies, world, currentClusterID, spawnCenter,
          currentSpawnOrigin, lastSymbolNodeCount, isCrystallized, time,
          simplex, phantomCursors,
          nextBody, spawnCount, lastOp, arg, thrown, returned, budget,
          frame, renderer, uniforms>>

\* The simulation state proper (everything but the bookkeeping of the model).
simVars == <<nodes, springs, bodies, world, currentClusterID, spawnCenter,
             currentSpawnOrigin, lastSymbolNodeCount, isCrystallized, time,
             simplex, phantomCursors>>

(***************************************************************************)
(* Helpers on the containers.                                              *)
(***************************************************************************)
NodeBodies(ns) == {ns[i].body : i \in 1..Len(ns)}

SpringBodies(ss) == {ss[i].bodyA : i \in 1..Len(ss)} \cup {ss[i].bodyB : i \in 1..Len(ss)}

\* Bodies no longer referenced by a node, a spring or the world are garbage.
Collect(bs, ns, ss, w) ==
    [b \in (NodeBodies(ns) \cup SpringBodies(ss) \cup w) \cap DOMAIN bs |-> bs[b]]

EmptyHeap == [b \in {} |-> Zero3]

(***************************************************************************)
(* The application (main.js, and the App of the fade variant).  A frame    *)
(* is one call of App.animate: it steps the simulation and then hands the  *)
(* node list to InkRenderer.update.  The listeners of bindEvents and the   *)
(* frames are tasks of one JavaScript thread: a listener runs when no      *)
(* frame is under way.                                                     *)
(***************************************************************************)
Idle == [pc |-> "idle", deltaTime |-> 0]

Stepped(dt) == [pc |-> "stepped", deltaTime |-> dt]

\* Mutant: a listener runs in the middle of a frame.
HandlerMayRun_Anytime == TRUE

\* A listener of bindEvents may run: no frame is between its step and its
\* update.
HandlerMayRun == frame.pc = "idle"

\* A call made by a listener, or by animate before its step.
Handler ==
    /\ HandlerMayRun
    /\ UNCHANGED <<frame, renderer, uniforms>>

\* this.physicsWorld.step(deltaTime) of animate: the frame goes on to update.
Frame(dt) ==
    /\ frame.pc = "idle"
    /\ frame' = Stepped(dt)
    /\ UNCHANGED <<renderer, uniforms>>

\* The renderer of the FIFO application is InkRenderer.js (vec3 slots); the
\* fade application draws radii (vec4 slots).  The vec4 renderer also takes
\* nodes without a radius, the nodes of the FIFO simulation.
Renderers(v, b) ==
    IF v = "fade"
    THEN {"vec4"}
    ELSE IF b = Profile(1, 1, MaxSteps, MaxOther) THEN {"vec3", "vec4"} ELSE {"vec3"}

\* A slot of new Float32Array(MAX_NODES * 3) or (MAX_NODES * 4): zeros.
EmptySlot(r) ==
    IF r = "vec3" THEN Zero3 ELSE [x |-> 0, y |-> 0, z |-> 0, w |-> 0]

\* this.uniforms of a new InkRenderer: uTime 0, no node counted, and a
\* zeroed Float32Array of MAX_NODES slots.
NewUniforms(r) ==
    [uTime |-> 0, count |-> 0, uNodes |-> [i \in 1..MAX_NODES |-> EmptySlot(r)]]

(***************************************************************************)
(* Construction.                                                           *)
(***************************************************************************)
Init ==
    /\ variant \in {"fifo", "fade"}
    /\ nodes = <<>>
    /\ springs = <<>>
    /\ bodies = EmptyHeap
    /\ world = {}
    /\ currentClusterID = 0
    /\ spawnCenter = Zero3
    /\ currentSpawnOrigin = {}
    /\ lastSymbolNodeCount = IF variant = "fifo" THEN {0} ELSE {}
    /\ isCrystallized = FALSE
    /\ time = 0
    /\ simplex \in (IF variant = "fifo" THEN Seeds ELSE {0})
    /\ phantomCursors = IF variant = "fifo" THEN [k \in 1..3 |-> Zero3] ELSE <<>>
    /\ nextBody = 1
    /\ spawnCount = 0
    /\ lastOp = "constructor"
    /\ arg = {}
    /\ thrown = FALSE
    /\ returned = {}
    /\ budget \in Profiles(variant)
    /\ frame = Idle
    /\ renderer \in Renderers(variant, budget)
    /\ uniforms = NewUniforms(renderer)

(***************************************************************************)
(* Bookkeeping shared by the actions: which operation ran, whether it      *)
(* raised, what it returned.                                               *)
(***************************************************************************)
Ran(op, given, raised, value) ==
    /\ lastOp' = op
    /\ arg' = given
    /\ thrown' = raised
    /\ returned' = value

Has(kind) == budget[kind] > 0

Spend(kind) == budget' = [budget EXCEPT ![kind] = @ - 1]

(***************************************************************************)
(* Bodies and springs.                                                     *)
(***************************************************************************)
\* new CANNON.Body({mass: 1, linearDamping, position}); damping in hundredths.
NewBody(pos, damping) ==
    [position |-> pos, velocity |-> Zero3, force |-> Zero3, linearDamping |-> damping]

\* addSpring: new CANNON.Spring(bodyA, bodyB, {restLength, stiffness, damping}).
\* Stiffness is in tenths, rest length and damping in hundredths.
addSpring(ss, a, b, k, rest) ==
    Append(ss, [bodyA |-> a, bodyB |-> b, stiffness |-> k, restLength |-> rest,
                damping |-> 50, visible |-> FALSE])

Alloc(bs, b, rec) == [id \in DOMAIN bs \cup {b} |-> IF id = b THEN rec ELSE bs[id]]

(***************************************************************************)
(* FIFO variant: addNode and enforceNodeLimit.                             *)
(***************************************************************************)
\* (Math.random() - 0.5) * 0.6
ScatterFifo(r) == (r - 5) * 6

\* The while loop of addNode: idx is clusterStartIdx (0-based).
RECURSIVE ClusterScan(_, _, _)
ClusterScan(ns, cid, idx) ==
    IF idx >= 0 /\ ns[idx + 1].clusterID = cid
    THEN ClusterScan(ns, cid, idx - 1)
    ELSE idx

\* Math.floor(Math.random() * (maxIdx - minIdx)) + minIdx
RandomIdx(r, minIdx, maxIdx) == ((r * (maxIdx - minIdx)) \div 10) + minIdx

\* Mutant: the second spring is given from the third node of a cluster on.
LinkFifo_Early(ss, ns, cid, b, r) ==
    LET currentNodeCount == Len(ns) IN
    IF currentNodeCount > 0 /\ ns[currentNodeCount].clusterID = cid
    THEN LET s1 == addSpring(ss, b, ns[currentNodeCount].body, 10, 15)
             clusterStartIdx == ClusterScan(ns, cid, currentNodeCount - 1) + 1
         IN IF currentNodeCount > clusterStartIdx + 1
            THEN addSpring(s1, b, ns[RandomIdx(r, clusterStartIdx, currentNodeCount - 1) + 1].body,
                           5, 15)
            ELSE s1
    ELSE ss

\* The springs addNode gives the new body b (lines 189-215).
LinkFifo(ss, ns, cid, b, r) ==
    LET currentNodeCount == Len(ns) IN
    IF currentNodeCount > 0
    THEN LET lastNode == ns[currentNodeCount] IN
         IF lastNode.clusterID = cid
         THEN LET s1 == addSpring(ss, b, lastNode.body, 10, 15)
                  clusterStartIdx == ClusterScan(ns, cid, currentNodeCount - 1) + 1
              IN IF currentNodeCount > clusterStartIdx + 2
                 THEN LET randomIdx == RandomIdx(r, clusterStartIdx, currentNodeCount - 1)
                          randomNode == ns[randomIdx + 1]
                      IN IF randomNode.clusterID = cid
                         THEN addSpring(s1, b, randomNode.body, 5, 15)
                         ELSE s1
                 ELSE s1
         ELSE ss
    ELSE ss

\* Mutant: the limit is compared one too high.
RECURSIVE enforceNodeLimit_OffByOne(_, _, _)
enforceNodeLimit_OffByOne(ns, ss, w) ==
    IF Len(ns) > MAX_NODE_CAPACITY + 1
    THEN LET removedNode == Head(ns)
             Keep(spring) == ~(spring.bodyA = removedNode.body \/ spring.bodyB = removedNode.body)
         IN enforceNodeLimit_OffByOne(Tail(ns), SelectSeq(ss, Keep), w \ {removedNode.body})
    ELSE [nodes |-> ns, springs |-> ss, world |-> w]

\* Mutant: pop() instead of shift(), the newest node is removed.
RECURSIVE enforceNodeLimit_Newest(_, _, _)
enforceNodeLimit_Newest(ns, ss, w) ==
    IF Len(ns) > MAX_NODE_CAPACITY
    THEN LET removedNode == ns[Len(ns)]
             Keep(spring) == ~(spring.bodyA = removedNode.body \/ spring.bodyB = removedNode.body)
         IN enforceNodeLimit_Newest(SubSeq(ns, 1, Len(ns) - 1), SelectSeq(ss, Keep),
                                    w \ {removedNode.body})
    ELSE [nodes |-> ns, springs |-> ss, world |-> w]

\* enforceNodeLimit: shift the oldest node while over capacity, unregister
\* its body and filter out the springs that touch it.
RECURSIVE enforceNodeLimit(_, _, _)
enforceNodeLimit(ns, ss, w) ==
    IF Len(ns) > MAX_NODE_CAPACITY
    THEN LET removedNode == Head(ns)
             Keep(spring) == ~(spring.bodyA = removedNode.body \/ spring.bodyB = removedNode.body)
         IN enforceNodeLimit(Tail(ns), SelectSeq(ss, Keep), w \ {removedNode.body})
    ELSE [nodes |-> ns, springs |-> ss, world |-> w]

AddNodeFifo ==
    /\ variant = "fifo"
    /\ Has("add")
    /\ \E sc \in ScatterDraws, r3 \in Rand :
         LET spawnPos == Vec3(spawnCenter.x + ScatterFifo(sc[1]),
                              spawnCenter.y + ScatterFifo(sc[2]), spawnCenter.z)
             b == nextBody
             nodeData == [body |-> b, clusterID |-> currentClusterID]
             linked == LinkFifo(springs, nodes, currentClusterID, b, r3)
             lim == enforceNodeLimit(Append(nodes, nodeData), linked, world \cup {b})
         IN /\ nodes' = lim.nodes
            /\ springs' = lim.springs
            /\ world' = lim.world
            /\ bodies' = Collect(Alloc(bodies, b, NewBody(spawnPos, 95)),
                                 lim.nodes, lim.springs, lim.world)
    /\ nextBody' = nextBody + 1
    /\ spawnCount' = spawnCount + 1
    /\ Ran("addNode", {}, FALSE, {})
    /\ Spend("add")
    /\ Handler
    /\ UNCHANGED <<variant, currentClusterID, spawnCenter, currentSpawnOrigin,
                   lastSymbolNodeCount, isCrystallized, time, simplex,
                   phantomCursors>>

(***************************************************************************)
(* Fade variant: addNode (lines 568-600).                                  *)
(***************************************************************************)
\* (Math.random() - 0.5) * 0.5
ScatterFade(r) == (r - 5) * 5

\* The springs the fade variant's addNode gives the new body b.
LinkFade(ss, ns, b, r) ==
    IF Len(ns) > 0
    THEN LET lastNode == ns[Len(ns)]
             s1 == addSpring(ss, b, lastNode.body, 10, 250)
         IN IF Len(ns) > 2
            THEN LET randomNode == ns[((r * (Len(ns) - 1)) \div 10) + 1]
                 IN addSpring(s1, b, randomNode.body, 5, 250)
            ELSE s1
    ELSE ss

AddNodeFade ==
    /\ variant = "fade"
    /\ Has("add")
    /\ IF isCrystallized
       THEN UNCHANGED <<nodes, springs, world, bodies, nextBody, spawnCount>>
       ELSE \E sc \in ScatterDraws, r3 \in Rand :
              LET b == nextBody
                  pos == Vec3(ScatterFade(sc[1]), ScatterFade(sc[2]), 0)
                  linked == LinkFade(springs, nodes, b, r3)
                  ns1 == Append(nodes, [body |-> b, radius |-> 105, isDying |-> FALSE])
              IN /\ nodes' = ns1
                 /\ springs' = linked
                 /\ world' = world \cup {b}
                 /\ bodies' = Alloc(bodies, b, NewBody(pos, 90))
                 /\ nextBody' = nextBody + 1
                 /\ spawnCount' = spawnCount + 1
    /\ Ran("addNode", {}, FALSE, {})
    /\ Spend("add")
    /\ Handler
    /\ UNCHANGED <<variant, currentClusterID, spawnCenter, currentSpawnOrigin,
                   lastSymbolNodeCount, isCrystallized, time, simplex,
                   phantomCursors>>

(***************************************************************************)
(* reset (lines 294-309 and 648-669).  this.currentSpawnOrigin is assigned *)
(* nowhere in either class, so currentSpawnOrigin.set(0, 0, 0) raises a    *)
(* TypeError and the statements after it do not run.                       *)
(***************************************************************************)
ResetFifo ==
    /\ variant = "fifo"
    /\ Has("other")
    /\ nodes' = <<>>
    /\ springs' = <<>>
    /\ world' = world \ NodeBodies(nodes)
    /\ bodies' = Collect(bodies, <<>>, <<>>, world')
    /\ lastSymbolNodeCount' = {0}
    /\ IF currentSpawnOrigin = {}
       THEN /\ UNCHANGED <<currentSpawnOrigin, spawnCenter, currentClusterID, isCrystallized>>
            /\ Ran("reset", {}, TRUE, {})
       ELSE /\ currentSpawnOrigin' = {Zero3}
            /\ spawnCenter' = Zero3
            /\ currentClusterID' = 0
            /\ isCrystallized' = FALSE
            /\ Ran("reset", {}, FALSE, {})
    /\ spawnCount' = 0
    /\ Spend("other")
    /\ Handler
    /\ UNCHANGED <<variant, time, simplex, phantomCursors, nextBody>>

ResetFade ==
    /\ variant = "fade"
    /\ Has("other")
    /\ nodes' = <<>>
    /\ springs' = <<>>
    /\ world' = world \ NodeBodies(nodes)
    /\ bodies' = Collect(bodies, <<>>, <<>>, world')
    /\ lastSymbolNodeCount' = {0}
    /\ IF currentSpawnOrigin = {}
       THEN /\ UNCHANGED <<currentSpawnOrigin, isCrystallized>>
            /\ Ran("reset", {}, TRUE, {})
       ELSE /\ currentSpawnOrigin' = {Zero3}
            /\ isCrystallized' = FALSE
            /\ Ran("reset", {}, FALSE, {})
    /\ spawnCount' = 0
    /\ Spend("other")
    /\ Handler
    /\ UNCHANGED <<variant, spawnCenter, currentClusterID, time, simplex, phantomCursors,
                   nextBody>>

(***************************************************************************)
(* finalizeCluster (FIFO variant, lines 237-286).                          *)
(***************************************************************************)
\* angle = Math.random() * Math.PI * 2, given by its cosine and sine in
\* fifths: the angles 0, pi/2, pi, 3 pi/2 and pi + atan(4/3).
Angles == {[cos |-> 5, sin |-> 0], [cos |-> 0, sin |-> 5], [cos |-> -5, sin |-> 0],
           [cos |-> 0, sin |-> -5], [cos |-> -3, sin |-> -4]}

\* One pass of the do-while loop draws an angle and a Math.random() for dist.
Samples ==
    {[angle |-> [cos |-> 0, sin |-> 5], r |-> 9], [angle |-> [cos |-> 0, sin |-> 5], r |-> 5],
     [angle |-> [cos |-> 5, sin |-> 0], r |-> 9], [angle |-> [cos |-> -3, sin |-> -4], r |-> 0],
     [angle |-> [cos |-> -5, sin |-> 0], r |-> 9], [angle |-> [cos |-> 0, sin |-> -5], r |-> 9]}

\* The samples of the first four passes, all overwritten by the fifth.
EarlySamples == {[angle |-> [cos |-> 5, sin |-> 0], r |-> 9],
                 [angle |-> [cos |-> 0, sin |-> 5], r |-> 0]}

\* dist = minDist + Math.random() * (maxDist - minDist), minDist 3.0, maxDist 8.0
SampleDist(r) == 300 + r * 50

\* Mutant: the last sample is taken as it is, without the clamp.
RECURSIVE SampleLoop_NoClamp(_, _, _)
SampleLoop_NoClamp(center, samples, attempts) ==
    LET s == samples[attempts + 1]
        dist == SampleDist(s.r)
    IN IF attempts + 1 < 5
       THEN SampleLoop_NoClamp(center, samples, attempts + 1)
       ELSE Vec3(center.x + Quot(s.angle.cos * dist, 5),
                 center.y + Quot(s.angle.sin * dist, 5), 0)

\* The do-while loop: `attempts` passes are done; the result is newX, newY of
\* the last pass (visibleRangeX 14, visibleRangeY 10, attempts < 5).
RECURSIVE SampleLoop(_, _, _)
SampleLoop(center, samples, attempts) ==
    LET s == samples[attempts + 1]
        dist == SampleDist(s.r)
        x0 == center.x + Quot(s.angle.cos * dist, 5)
        y0 == center.y + Quot(s.angle.sin * dist, 5)
        x1 == IF x0 > 1400 THEN x0 - Quot(dist * 3, 2) ELSE x0
        x2 == IF x1 < -1400 THEN x1 + Quot(dist * 3, 2) ELSE x1
        y1 == IF y0 > 1000 THEN y0 - Quot(dist * 3, 2) ELSE y0
        y2 == IF y1 < -1000 THEN y1 + Quot(dist * 3, 2) ELSE y1
    IN IF attempts + 1 < 5
       THEN SampleLoop(center, samples, attempts + 1)
       ELSE Vec3(x2, y2, 0)

\* (Math.random() - 0.5) * 0.5, the drift impulse; mass is 1, so it is the
\* change of velocity, in hundredths per second.
Drift(r) == (r - 5) * 5

\* The pairs of Math.random() values one finalizeCluster call draws for the
\* drift of its nodes (every node of the call gets the same pair).
DriftDraws == {<<0, 9>>}

\* The loop over the nodes: damping is set again and the impulse applied.
DriftAll(bs, ns, d) ==
    [b \in DOMAIN bs |->
        IF b \in NodeBodies(ns)
        THEN [bs[b] EXCEPT !.linearDamping = 95,
                           !.velocity = vadd(@, Vec3(Drift(d[1]), Drift(d[2]), 0))]
        ELSE bs[b]]

\* Mutant: the springs of the finished cluster are dropped.
finalizeCluster_DropSprings(samples, d) ==
    /\ spawnCenter' = SampleLoop(spawnCenter, samples, 0)
    /\ bodies' = DriftAll(bodies, nodes, d)
    /\ isCrystallized' = FALSE
    /\ springs' = <<>>
    /\ UNCHANGED <<nodes, world, currentClusterID, currentSpawnOrigin,
                   lastSymbolNodeCount, time, simplex, phantomCursors>>

\* The state finalizeCluster leaves: nothing in it assigns currentClusterID.
finalizeCluster(samples, d) ==
    /\ spawnCenter' = SampleLoop(spawnCenter, samples, 0)
    /\ bodies' = DriftAll(bodies, nodes, d)
    /\ isCrystallized' = FALSE
    /\ UNCHANGED <<nodes, springs, world, currentClusterID, currentSpawnOrigin,
                   lastSymbolNodeCount, time, simplex, phantomCursors>>

FinalizeCluster ==
    /\ variant = "fifo"
    /\ Has("finalize")
    /\ \E early \in EarlySamples, last \in Samples, d \in DriftDraws :
         finalizeCluster([i \in 1..5 |-> IF i < 5 THEN early ELSE last], d)
    /\ Ran("finalizeCluster", {}, FALSE, {})
    /\ Spend("finalize")
    /\ Handler
    /\ UNCHANGED <<variant, nextBody, spawnCount>>

(***************************************************************************)
(* getCentroid (lines 319-334).                                            *)
(***************************************************************************)
\* The quotient a / b of two numbers, kept exact.
Ratio(a, b) == [num |-> a, den |-> b]

\* The for loop: the sum of field f of the positions of ns[i..].
RECURSIVE SumLoop(_, _, _, _, _)
SumLoop(bs, ns, i, sumX, sumY) ==
    IF i > Len(ns)
    THEN [x |-> sumX, y |-> sumY]
    ELSE SumLoop(bs, ns, i + 1, sumX + bs[ns[i].body].position.x,
                                sumY + bs[ns[i].body].position.y)

\* Mutant: no guard for the empty list, 0 / 0.
getCentroid_NoGuard(bs, ns) ==
    LET sum == SumLoop(bs, ns, 1, 0, 0)
    IN [x |-> Ratio(sum.x, Len(ns)), y |-> Ratio(sum.y, Len(ns))]

getCentroid(bs, ns) ==
    IF Len(ns) = 0
    THEN [x |-> Ratio(0, 1), y |-> Ratio(0, 1)]
    ELSE LET sum == SumLoop(bs, ns, 1, 0, 0)
         IN [x |-> Ratio(sum.x, Len(ns)), y |-> Ratio(sum.y, Len(ns))]

GetCentroid ==
    /\ variant = "fifo"
    /\ Has("other")
    /\ Ran("getCentroid", {}, FALSE, {getCentroid(bodies, nodes)})
    /\ Spend("other")
    /\ Handler
    /\ UNCHANGED <<simVars, variant, nextBody, spawnCount>>

(***************************************************************************)
(* Arithmetic of the forces.  A force is in 1/10000 of a physics unit, a   *)
(* velocity in hundredths per second.                                      *)
(***************************************************************************)
RECURSIVE IsqrtIter(_, _, _)
IsqrtIter(n, lo, hi) ==
    IF lo >= hi
    THEN lo
    ELSE LET mid == (lo + hi + 1) \div 2
         IN IF mid * mid <= n THEN IsqrtIter(n, mid, hi) ELSE IsqrtIter(n, lo, mid - 1)

\* Math.sqrt, truncated.
Isqrt(n) == IsqrtIter(n, 0, Min(n, 46340))

LengthSquared(v) == v.x * v.x + v.y * v.y + v.z * v.z

\* v scaled by num / den.
ScaleQuot(v, num, den) == Vec3(Quot(v.x * num, den), Quot(v.y * num, den), Quot(v.z * num, den))

\* body.applyForce(force, ...): the force accumulates until the next
\* integration clears it.
applyForce(body, f) == [body EXCEPT !.force = vadd(@, f)]

\* bs with F(b) applied as a force to the body of every node of ns.
ForceEachNode(bs, ns, F(_)) ==
    [b \in DOMAIN bs |-> IF b \in NodeBodies(ns) THEN applyForce(bs[b], F(b)) ELSE bs[b]]

(***************************************************************************)
(* applyMouseInteraction (lines 336-352).  A point is null (or undefined), *)
(* has a NaN coordinate, or is a vector.                                   *)
(***************************************************************************)
NullPoint == [null |-> TRUE, nan |-> FALSE, v |-> Zero3]

NaNPoint == [null |-> FALSE, nan |-> TRUE, v |-> Zero3]

Point(v) == [null |-> FALSE, nan |-> FALSE, v |-> v]

\* const radius = 5.0
InteractionRadius == 500

\* const strength = 10.0
InteractionStrength == 100000

\* position.distanceSquared(mousePoint): NaN when the point has a NaN.
distanceSquared(pos, m) == [nan |-> m.nan, val |-> LengthSquared(vsub(pos, m.v))]

\* Mutant: the test against the radius is missing.
InRange_NoRadius(distSq) ==
    /\ ~distSq.nan
    /\ distSq.val > 10

\* distSq < radius * radius && distSq > 0.001: a comparison with NaN is false.
InRange(distSq) ==
    /\ ~distSq.nan
    /\ distSq.val < InteractionRadius * InteractionRadius
    /\ distSq.val > 10

\* Mutant: the force pulls the node toward the point.
MouseForce_Attract(pos, m) ==
    LET distSq == distanceSquared(pos, m) IN
    IF InRange(distSq)
    THEN LET dist == Isqrt(distSq.val)
         IN ScaleQuot(vsub(m.v, pos),
                      (InteractionStrength \div InteractionRadius) * (InteractionRadius - dist),
                      dist)
    ELSE Zero3

\* The force one node gets: normalize(position - mousePoint) scaled by
\* strength * (1 - dist / radius); nothing when the test fails.
MouseForce(pos, m) ==
    LET distSq == distanceSquared(pos, m) IN
    IF InRange(distSq)
    THEN LET dist == Isqrt(distSq.val)
         IN ScaleQuot(vsub(pos, m.v),
                      (InteractionStrength \div InteractionRadius) * (InteractionRadius - dist),
                      dist)
    ELSE Zero3

applyMouseInteraction(bs, ns, mousePoint) ==
    IF mousePoint.null
    THEN bs
    ELSE LET F(b) == MouseForce(bs[b].position, mousePoint) IN ForceEachNode(bs, ns, F)

\* The points of the plane z = 0 the pointer is moved to.
MousePoints ==
    {NullPoint, NaNPoint, Point(Vec3(-30, 0, 0)), Point(Vec3(600, 0, 0))}

ApplyMouseInteraction ==
    /\ variant = "fifo"
    /\ Has("other")
    /\ \E m \in MousePoints :
         /\ bodies' = applyMouseInteraction(bodies, nodes, m)
         /\ Ran("applyMouseInteraction", {m}, FALSE, {})
    /\ Spend("other")
    /\ Handler
    /\ UNCHANGED <<variant, nodes, springs, world, currentClusterID, spawnCenter,
                   currentSpawnOrigin, lastSymbolNodeCount, isCrystallized, time,
                   simplex, phantomCursors, nextBody, spawnCount>>

(***************************************************************************)
(* Math.sin and the noise field.                                           *)
(***************************************************************************)
\* sin of d degrees, 0 <= d <= 180, in thousandths (Bhaskara's formula).
SinHalf(d) == Quot(4000 * d * (180 - d), 40500 - d * (180 - d))

\* Math.sin of an angle in degrees, in thousandths.
Sin(deg) == LET d == deg % 360 IN IF d <= 180 THEN SinHalf(d) ELSE -SinHalf(d - 180)

Cos(deg) == Sin(deg + 90)

\* An angle of `rad100` hundredths of a radian, in degrees.
Degrees(rad100) == Quot(rad100 * 573, 1000)

\* this.simplex.noise(a, b), arguments in hundredths, value in thousandths
\* between -1 and 1: a fixed function of its arguments and of the
\* permutation table drawn when the SimplexNoise object is constructed.
Noise(seed, a, b) == ((a * 37 + b * 91 + seed * 53) % 2001) - 1000

(***************************************************************************)
(* applyIdleMotion (lines 354-365); t is performance.now() / 1000 in       *)
(* seconds.                                                                *)
(***************************************************************************)
IndexOf(ns, b) == CHOOSE i \in 1..Len(ns) : ns[i].body = b

IdleForce(t, i) ==
    Vec3(Sin(Degrees(t * 50 + i * 20)), Cos(Degrees(t * 30 + i * 10)), 0)

applyIdleMotion(bs, ns, t) ==
    LET F(b) == IdleForce(t, IndexOf(ns, b) - 1) IN ForceEachNode(bs, ns, F)

(***************************************************************************)
(* applyAmbientCurrent (lines 137-166) and updatePhantoms (120-135); t is  *)
(* this.time in ticks.                                                     *)
(***************************************************************************)
ClusterCount(ns, cid) == Cardinality({i \in 1..Len(ns) : ns[i].clusterID = cid})

AmbientForce(seed, ns, i, pos, t) ==
    LET noiseValX == Noise(seed, Quot(pos.x * 15, 100), Quot(pos.y * 15, 100) + Quot(t, 3))
        noiseValY == Noise(seed, Quot(pos.x * 15, 100) + 10000,
                           Quot(pos.y * 15, 100) + Quot(t, 3))
        count == ClusterCount(ns, ns[i].clusterID)
    IN \* baseForce 2.0 times inertiaFactor 1 / (1 + count * 0.1)
       Vec3(Quot(noiseValX * 200, 10 + count), Quot(noiseValY * 200, 10 + count), 0)

applyAmbientCurrent(seed, bs, ns, t) ==
    LET F(b) == AmbientForce(seed, ns, IndexOf(ns, b), bs[b].position, t)
    IN ForceEachNode(bs, ns, F)

\* Position of phantom i (0, 1, 2; offset 0, 1000, 2000) at time t.
updatePhantoms(seed, t) ==
    [k \in 1..3 |->
        LET i == k - 1
            offset == i * 1000
        IN Vec3(Quot(Noise(seed, Quot(t, 2) + offset * 100, (100 + i * 10) * 100) * 12, 10),
                Quot(Noise(seed, Quot(t, 2) + offset * 100, (200 + i * 10) * 100) * 8, 10),
                0)]

(***************************************************************************)
(* applyRepulsiveForces (lines 83-118 and 543-566).  radius2 is twice      *)
(* REPULSION_RADIUS, breathing the breathingFactor in thousandths.         *)
(***************************************************************************)
\* 1.0 + Math.sin(time * 0.5) * 0.8
BreathingFactor(t) == 1000 + Quot(Sin(Degrees(Quot(t * 50, 60))) * 8, 10)

HasCluster(node) == "clusterID" \in DOMAIN node

Repulse(bs, nodeA, nodeB, strength, radius2, breathing) ==
    LET bodyA == nodeA.body
        bodyB == nodeB.body
        distVec == vsub(bs[bodyA].position, bs[bodyB].position)
        distSq == LengthSquared(distVec)
    IN IF 4 * distSq < radius2 * radius2 /\ distSq > 0
       THEN LET dist == Isqrt(distSq)
                base == Quot(strength * (radius2 - 2 * dist), radius2)
                forceMagnitude ==
                    IF HasCluster(nodeA) /\ nodeA.clusterID # nodeB.clusterID
                    THEN Quot(base * breathing, 1000)
                    ELSE base
                force == ScaleQuot(distVec, forceMagnitude, dist)
            IN [bs EXCEPT ![bodyA] = applyForce(@, force),
                          ![bodyB] = applyForce(@, vsub(Zero3, force))]
       ELSE bs

\* The two nested for loops, at the pair (i, j), 1-based.
RECURSIVE RepulseLoop(_, _, _, _, _, _, _)
RepulseLoop(bs, ns, i, j, strength, radius2, breathing) ==
    IF i > Len(ns)
    THEN bs
    ELSE IF j > Len(ns)
         THEN RepulseLoop(bs, ns, i + 1, i + 2, strength, radius2, breathing)
         ELSE Then(Repulse(bs, ns[i], ns[j], strength, radius2, breathing),
                   LAMBDA next : RepulseLoop(next, ns, i, j + 1, strength, radius2, breathing))

\* FIFO variant: REPULSION_FORCE 40.0, REPULSION_RADIUS 0.225.
applyRepulsiveForcesFifo(bs, ns, t) ==
    RepulseLoop(bs, ns, 1, 2, 400000, 45, BreathingFactor(t))

\* Fade variant: REPULSION_FORCE 15, REPULSION_RADIUS 3.5, no breathing.
applyRepulsiveForcesFade(bs, ns) ==
    RepulseLoop(bs, ns, 1, 2, 150000, 700, 1000)

(***************************************************************************)
(* this.world.step(1 / 60, dt, 3) of cannon-es, with its postStep          *)
(* listener (lines 33-38).  dt is a whole number of ticks, so the          *)
(* accumulator of the world is zero between calls.  Contacts between the   *)
(* spheres are left out.                                                   *)
(***************************************************************************)
\* Math.pow(1 - linearDamping, 1 / 60) in thousandths.
DampFactor(linearDamping) == IF linearDamping = 95 THEN 951 ELSE 962

\* Damping, Body.integrate and clearForces for one registered body.
Integrate(body) ==
    LET damped == ScaleQuot(body.velocity, DampFactor(body.linearDamping), 1000)
        velocity == vadd(damped, ScaleQuot(body.force, 1, 6000))
    IN [body EXCEPT !.velocity = velocity,
                    !.position = vadd(@, ScaleQuot(velocity, 1, 60)),
                    !.force = Zero3]

\* Spring.applyForce: Hooke's force toward the rest length plus damping along
\* the axis, added to bodyB and subtracted from bodyA.
SpringForce(bs, spring) ==
    LET r == vsub(bs[spring.bodyB].position, bs[spring.bodyA].position)
        rlen == Isqrt(LengthSquared(r))
        u == vsub(bs[spring.bodyB].velocity, bs[spring.bodyA].velocity)
        udotr == u.x * r.x + u.y * r.y + u.z * r.z
    IN IF rlen = 0
       THEN Zero3
       ELSE ScaleQuot(r, -(spring.stiffness * (rlen - spring.restLength) * 10)
                         - Quot(spring.damping * udotr, rlen), rlen)

\* The postStep listener: for (const spring of this.springs) spring.applyForce().
RECURSIVE postStep(_, _, _)
postStep(bs, ss, i) ==
    IF i > Len(ss)
    THEN bs
    ELSE LET f == SpringForce(bs, ss[i])
         IN Then([bs EXCEPT ![ss[i].bodyA] = applyForce(@, vsub(Zero3, f)),
                            ![ss[i].bodyB] = applyForce(@, f)],
                 LAMBDA next : postStep(next, ss, i + 1))

\* World.internalStep: integrate the registered bodies and clear their
\* forces, then dispatch postStep.
internalStep(bs, w, ss) ==
    postStep([b \in DOMAIN bs |-> IF b \in w THEN Integrate(bs[b]) ELSE bs[b]], ss, 1)

RECURSIVE subSteps(_, _, _, _)
subSteps(bs, w, ss, n) ==
    IF n = 0
    THEN bs
    ELSE Then(internalStep(bs, w, ss), LAMBDA next : subSteps(next, w, ss, n - 1))

\* world.step(1 / 60, dt, 3): at most maxSubSteps = 3 fixed steps.
worldStep(bs, w, ss, dt) == subSteps(bs, w, ss, Min(dt, 3))

(***************************************************************************)
(* step(dt), FIFO variant (lines 50-69).                                   *)
(***************************************************************************)
\* deltaTime of a frame, in ticks: one frame, or a second after a stall.
DtSet == {1, 60}

\* for (const phantom of this.phantomCursors) this.applyMouseInteraction(phantom.pos)
RECURSIVE PhantomLoop(_, _, _, _)
PhantomLoop(bs, ns, ph, k) ==
    IF k > Len(ph)
    THEN bs
    ELSE Then(applyMouseInteraction(bs, ns, Point(ph[k])),
              LAMBDA next : PhantomLoop(next, ns, ph, k + 1))

stepFifo(seed, bs, ns, ss, w, t, dt) ==
    Then(applyAmbientCurrent(seed, bs, ns, t), LAMBDA ambient :
    Then(PhantomLoop(ambient, ns, updatePhantoms(seed, t), 1), LAMBDA phantom :
    Then(applyRepulsiveForcesFifo(phantom, ns, t), LAMBDA repulsed :
    worldStep(repulsed, w, ss, dt))))

StepFifo ==
    /\ variant = "fifo"
    /\ Has("step")
    /\ \E dt \in DtSet :
         /\ time' = time + dt
         /\ phantomCursors' = updatePhantoms(simplex, time')
         /\ bodies' = stepFifo(simplex, bodies, nodes, springs, world, time', dt)
         /\ Ran("step", {dt}, FALSE, {})
         /\ Frame(dt)
    /\ Spend("step")
    /\ UNCHANGED <<variant, simplex, nodes, springs, world, currentClusterID, spawnCenter,
                   currentSpawnOrigin, lastSymbolNodeCount, isCrystallized,
                   nextBody, spawnCount>>

\* Wall-clock seconds passed to applyIdleMotion.
IdleTimes == {0, 7}

ApplyIdleMotion ==
    /\ variant = "fifo"
    /\ Has("other")
    /\ \E t \in IdleTimes :
         /\ bodies' = applyIdleMotion(bodies, nodes, t)
         /\ Ran("applyIdleMotion", {t}, FALSE, {})
    /\ Spend("other")
    /\ Handler
    /\ UNCHANGED <<variant, simplex, phantomCursors, nodes, springs, world, currentClusterID,
                   spawnCenter, currentSpawnOrigin, lastSymbolNodeCount, isCrystallized,
                   time, nextBody, spawnCount>>

(***************************************************************************)
(* Fade variant: manageNodeLifecycle and removeNode (lines 484-528), and   *)
(* step (lines 471-480).  A radius is in 1/300 of a unit, so that          *)
(* NODE_FADE_SPEED * dt = 0.2 * dt is dt ticks.                            *)
(***************************************************************************)
\* Mutant: the loop runs from the newest node to the oldest.
RECURSIVE MarkLoop_Newest(_, _, _, _)
MarkLoop_Newest(ns, i, markedCount, excess) ==
    LET k == Len(ns) + 1 - i IN
    IF i > Len(ns)
    THEN ns
    ELSE IF ~ns[k].isDying
         THEN IF markedCount + 1 >= excess
              THEN [ns EXCEPT ![k].isDying = TRUE]
              ELSE MarkLoop_Newest([ns EXCEPT ![k].isDying = TRUE], i + 1, markedCount + 1, excess)
         ELSE MarkLoop_Newest(ns, i + 1, markedCount, excess)

\* The marking loop at index i (1-based), markedCount nodes marked so far.
RECURSIVE MarkLoop(_, _, _, _)
MarkLoop(ns, i, markedCount, excess) ==
    IF i > Len(ns)
    THEN ns
    ELSE IF ~ns[i].isDying
         THEN IF markedCount + 1 >= excess
              THEN [ns EXCEPT ![i].isDying = TRUE]
              ELSE MarkLoop([ns EXCEPT ![i].isDying = TRUE], i + 1, markedCount + 1, excess)
         ELSE MarkLoop(ns, i + 1, markedCount, excess)

\* Mutant: no node is ever marked as dying.
MarkDying_Never(ns) == ns

MarkDying(ns) ==
    IF Len(ns) > MAX_ACTIVE_NODES
    THEN MarkLoop(ns, 1, 0, Len(ns) - MAX_ACTIVE_NODES)
    ELSE ns

\* nodes.splice(index, 1), index 1-based.
Splice(seq, index) == [k \in 1..(Len(seq) - 1) |-> IF k < index THEN seq[k] ELSE seq[k + 1]]

\* Mutant: the springs of the removed node are kept.
removeNode_KeepSprings(st, index) ==
    [nodes |-> Splice(st.nodes, index),
     springs |-> st.springs,
     world |-> st.world \ {st.nodes[index].body}]

\* Mutant: the body of the removed node stays registered in the world.
removeNode_KeepBody(st, index) ==
    LET node == st.nodes[index]
        Keep(spring) == ~(spring.bodyA = node.body \/ spring.bodyB = node.body)
    IN [nodes |-> Splice(st.nodes, index),
        springs |-> SelectSeq(st.springs, Keep),
        world |-> st.world]

\* removeNode(index): unregister the body, drop the springs that touch it,
\* splice the node out.
removeNode(st, index) ==
    LET node == st.nodes[index]
        Keep(spring) == ~(spring.bodyA = node.body \/ spring.bodyB = node.body)
    IN [nodes |-> Splice(st.nodes, index),
        springs |-> SelectSeq(st.springs, Keep),
        world |-> st.world \ {node.body}]

\* Mutant: the loop steps over the node before a removed one.
RECURSIVE FadeLoop_Skip(_, _, _)
FadeLoop_Skip(st, i, dt) ==
    IF i < 1
    THEN st
    ELSE IF st.nodes[i].isDying
         THEN LET faded == [st EXCEPT !.nodes[i].radius = @ - dt]
              IN IF faded.nodes[i].radius <= 0
                 THEN FadeLoop_Skip(removeNode(faded, i), i - 2, dt)
                 ELSE FadeLoop_Skip(faded, i - 1, dt)
         ELSE FadeLoop_Skip(st, i - 1, dt)

\* The reverse loop over the nodes at index i (1-based): a dying node fades
\* by NODE_FADE_SPEED * dt and is removed once its radius is <= 0.
RECURSIVE FadeLoop(_, _, _)
FadeLoop(st, i, dt) ==
    IF i < 1
    THEN st
    ELSE IF st.nodes[i].isDying
         THEN LET faded == [st EXCEPT !.nodes[i].radius = @ - dt]
              IN IF faded.nodes[i].radius <= 0
                 THEN FadeLoop(removeNode(faded, i), i - 1, dt)
                 ELSE FadeLoop(faded, i - 1, dt)
         ELSE FadeLoop(st, i - 1, dt)

manageNodeLifecycle(ns, ss, w, dt) ==
    LET marked == MarkDying(ns)
    IN FadeLoop([nodes |-> marked, springs |-> ss, world |-> w], Len(marked), dt)

\* step(dt) of the fade variant, called by a frame.
stepFade(dt) ==
    /\ variant = "fade"
    /\ LET repulsed == applyRepulsiveForcesFade(bodies, nodes)
           st == manageNodeLifecycle(nodes, springs, world, dt)
       IN /\ nodes' = st.nodes
          /\ springs' = st.springs
          /\ world' = st.world
          /\ bodies' = Collect(worldStep(repulsed, st.world, st.springs, dt),
                               st.nodes, st.springs, st.world)
    /\ Ran("step", {dt}, FALSE, {})
    /\ Frame(dt)
    /\ UNCHANGED <<variant, currentClusterID, spawnCenter, currentSpawnOrigin,
                   lastSymbolNodeCount, isCrystallized, time, simplex, phantomCursors,
                   nextBody, spawnCount>>

StepFade ==
    /\ Has("step")
    /\ \E dt \in DtSet : stepFade(dt)
    /\ Spend("step")

(***************************************************************************)
(* Fade variant: crystallize (lines 614-635) and shiftOrigin (637-646).    *)
(* Both read this.currentSpawnOrigin, which is undefined: crystallize      *)
(* raises after its loop over the springs, shiftOrigin at its first        *)
(* statement.                                                              *)
(***************************************************************************)
\* The loop over the springs: stiffness 5.0, rest length tripled, damping 0.8.
Expand(ss) ==
    [k \in 1..Len(ss) |->
        [ss[k] EXCEPT !.stiffness = 50, !.restLength = 250 * 3, !.damping = 80,
                      !.visible = TRUE]]

\* The outward impulse of node i: normalize(position - center) scaled by 1.0.
Push(body, center) ==
    LET dir == vsub(body.position, center)
        len == Isqrt(LengthSquared(dir))
    IN IF len = 0
       THEN body
       ELSE [body EXCEPT !.velocity = vadd(@, ScaleQuot(dir, 100, len))]

Crystallize ==
    /\ variant = "fade"
    /\ Has("other")
    /\ springs' = Expand(springs)
    /\ IF currentSpawnOrigin = {}
       THEN /\ UNCHANGED bodies
            /\ Ran("crystallize", {}, TRUE, {})
       ELSE /\ \E center \in currentSpawnOrigin, start \in lastSymbolNodeCount :
                 bodies' = [b \in DOMAIN bodies |->
                              IF b \in NodeBodies(nodes) /\ IndexOf(nodes, b) > start
                              THEN Push(bodies[b], center)
                              ELSE bodies[b]]
            /\ Ran("crystallize", {}, FALSE, {})
    /\ Spend("other")
    /\ Handler
    /\ UNCHANGED <<variant, nodes, world, currentClusterID, spawnCenter, currentSpawnOrigin,
                   lastSymbolNodeCount, isCrystallized, time, simplex, phantomCursors,
                   nextBody, spawnCount>>

ShiftOrigin ==
    /\ variant = "fade"
    /\ Has("other")
    /\ IF currentSpawnOrigin = {}
       THEN /\ UNCHANGED <<currentSpawnOrigin, lastSymbolNodeCount>>
            /\ Ran("shiftOrigin", {}, TRUE, {})
       ELSE /\ \E origin \in currentSpawnOrigin, r \in Rand :
                 currentSpawnOrigin' = {Vec3(origin.x + 1200, (r - 5) * 80, origin.z)}
            /\ lastSymbolNodeCount' = {Len(nodes)}
            /\ Ran("shiftOrigin", {}, FALSE, {})
    /\ Spend("other")
    /\ Handler
    /\ UNCHANGED <<variant, nodes, springs, bodies, world, currentClusterID, spawnCenter,
                   isCrystallized, time, simplex, phantomCursors, nextBody, spawnCount>>

(***************************************************************************)
(* InkRenderer.update(nodes, dt, springs): InkRenderer.js:158-174 (vec3)   *)
(* and lines 136-156 of the vec4 renderer.  The buffer uNodes is a         *)
(* Float32Array, here its slots of 3 or 4 numbers; a store past its end    *)
(* is dropped, as a typed array drops it.  The camera pose the vec4        *)
(* renderer copies is outside this model.                                  *)
(***************************************************************************)
\* positions[i * 3 + 0..2] = ..., or positions[i * 4 + 0..3] = ...; i is 1-based.
Store(positions, i, slot) ==
    IF i \in DOMAIN positions THEN [positions EXCEPT ![i] = slot] ELSE positions

\* nodes[i].radius !== undefined ? nodes[i].radius : 0.35, in 1/300.
RadiusOf(node) == IF "radius" \in DOMAIN node THEN node.radius ELSE 105

\* What the loop body stores for a node.
SlotOf(r, bs, node) ==
    LET pos == bs[node.body].position
    IN IF r = "vec3"
       THEN pos
       ELSE [x |-> pos.x, y |-> pos.y, z |-> pos.z, w |-> RadiusOf(node)]

\* Mutant: the slots the loop does not reach are zeroed.
RECURSIVE StoreLoop_Clear(_, _, _, _, _, _)
StoreLoop_Clear(positions, r, bs, ns, i, count) ==
    IF i > count
    THEN [k \in DOMAIN positions |-> IF k >= i THEN EmptySlot(r) ELSE positions[k]]
    ELSE StoreLoop_Clear(Store(positions, i, SlotOf(r, bs, ns[i])), r, bs, ns, i + 1, count)

\* for (let i = 0; i < count; i++) { ... }, at the 1-based index i.
RECURSIVE StoreLoop(_, _, _, _, _, _)
StoreLoop(positions, r, bs, ns, i, count) ==
    IF i > count
    THEN positions
    ELSE StoreLoop(Store(positions, i, SlotOf(r, bs, ns[i])), r, bs, ns, i + 1, count)

\* Mutant: the count is not cut to MAX_NODES.
update_NoMin(u, r, bs, ns, dt) ==
    [uTime |-> u.uTime + dt,
     count |-> Len(ns),
     uNodes |-> StoreLoop(u.uNodes, r, bs, ns, 1, Len(ns))]

update(u, r, bs, ns, dt) ==
    LET count == Min(Len(ns), MAX_NODES)
    IN [uTime |-> u.uTime + dt,
        count |-> count,
        uNodes |-> StoreLoop(u.uNodes, r, bs, ns, 1, count)]

\* The rest of a frame: animate hands getNodes() and deltaTime to update.
Update ==
    /\ frame.pc = "stepped"
    /\ uniforms' = update(uniforms, renderer, bodies, nodes, frame.deltaTime)
    /\ frame' = Idle
    /\ Ran("update", {frame.deltaTime}, FALSE, {})
    /\ UNCHANGED <<simVars, variant, nextBody, spawnCount, budget, renderer>>

Next ==
    \/ AddNodeFifo
    \/ AddNodeFade
    \/ ResetFifo
    \/ ResetFade
    \/ FinalizeCluster
    \/ GetCentroid
    \/ ApplyMouseInteraction
    \/ ApplyIdleMotion
    \/ StepFifo
    \/ StepFade
    \/ Crystallize
    \/ ShiftOrigin
    \/ Update

Spec == Init /\ [][Next]_vars

(***************************************************************************)
(* The fade application left running.  requestAnimationFrame(this.animate) *)
(* at the head of animate schedules the next frame whatever the frame      *)
(* does, so frames keep coming: here they go on, one second each, while    *)
(* the list is over MAX_ACTIVE_NODES, for LiveTicks ticks of frames.       *)
(***************************************************************************)
LiveDt == {60}

KeepStepping ==
    /\ ~Has("step")
    /\ Len(nodes) > MAX_ACTIVE_NODES
    /\ uniforms.uTime < LiveTicks
    /\ \E dt \in LiveDt : stepFade(dt)
    /\ UNCHANGED budget

LiveInit ==
    /\ Init
    /\ variant = "fade"
    /\ budget = Profile(MAX_ACTIVE_NODES + 1, 0, 1, MaxOther)

LiveNext ==
    \/ AddNodeFade
    \/ ResetFade
    \/ Crystallize
    \/ ShiftOrigin
    \/ StepFade
    \/ KeepStepping
    \/ Update

\* A frame is due: the loop is between frames and has a step to make.
FrameDue ==
    /\ frame.pc = "idle"
    /\ \/ Has("step")
       \/ Len(nodes) > MAX_ACTIVE_NODES /\ uniforms.uTime < LiveTicks

\* The step of a frame (StepFade or KeepStepping) is taken.
FrameStarts == frame.pc = "idle" /\ frame'.pc = "stepped"

\* Weak fairness of the frames: a frame that stays due starts, and the
\* renderer update that ends a started frame runs.  FrameDue is the enabling
\* condition of StepFade \/ KeepStepping, written out as a state predicate,
\* and FrameStarts holds of exactly their steps under LiveNext.
LiveSpec ==
    /\ LiveInit
    /\ [][LiveNext]_vars
    /\ WF_vars(Update)
    /\ (<>[]~FrameDue \/ []<><<FrameStarts>>_vars)

(***************************************************************************)
(* Properties.                                                             *)
(***************************************************************************)
Fifo == variant = "fifo"

Fade == variant = "fade"

\* C1: in the FIFO variant nodes.length <= MAX_NODE_CAPACITY after every
\* public operation.
C1_NodeLimit == Fifo => Len(nodes) <= MAX_NODE_CAPACITY

\* C1 witness: two more nodes were spawned than fit, and the list is full.
C1_Witness ==
    /\ Fifo
    /\ spawnCount = MAX_NODE_CAPACITY + 2
    /\ Len(nodes) = MAX_NODE_CAPACITY

\* C2: in both variants both bodies of every spring are bodies of nodes
\* currently in the list.
C2_NoDanglingSpring ==
    \A k \in 1..Len(springs) :
        /\ springs[k].bodyA \in NodeBodies(nodes)
        /\ springs[k].bodyB \in NodeBodies(nodes)

\* C2 witness: a step of the fade variant removed a faded node and springs
\* between the remaining nodes are left.
C2_Witness ==
    /\ Fade
    /\ lastOp = "step"
    /\ Len(nodes) < spawnCount
    /\ Len(springs) > 0

\* C3 (as claimed): after reset the lists are empty, the cluster id is 0 and
\* the spawn center is the origin.
C3_ResetClears ==
    (Fifo /\ lastOp = "reset") =>
        /\ nodes = <<>>
        /\ springs = <<>>
        /\ currentClusterID = 0
        /\ spawnCenter = Zero3

\* C4 (as claimed): finalizeCluster leaves a cluster id strictly greater than
\* the one before the call.
C4_FinalizeAdvances ==
    [][lastOp' = "finalizeCluster" => currentClusterID' > currentClusterID]_vars

\* C5: in the FIFO variant the list holds the min(n, MAX_NODE_CAPACITY) most
\* recently spawned of the n nodes spawned since it was last empty, in spawn
\* order: the ones removed are the first spawned, never the one just spawned.
C5_FifoOrder ==
    Fifo =>
        /\ Len(nodes) = Min(spawnCount, MAX_NODE_CAPACITY)
        /\ \A i \in 1..Len(nodes) : nodes[i].body = nextBody - Len(nodes) + i - 1

\* C5 witness: MAX_NODE_CAPACITY + 2 spawns and the newest node is last.
C5_Witness ==
    /\ Fifo
    /\ lastOp = "addNode"
    /\ spawnCount = MAX_NODE_CAPACITY + 2
    /\ nodes[Len(nodes)].body = nextBody - 1

\* C6 (as claimed): finalizeCluster moves the spawn center by a distance in
\* [minDist, maxDist] = [3.0, 8.0].
C6_DriftDistance ==
    [][lastOp' = "finalizeCluster" =>
         LET moved == LengthSquared(vsub(spawnCenter', spawnCenter))
         IN moved >= 300 * 300 /\ moved <= 800 * 800]_vars

\* C7 (as claimed): no public operation raises an error.
C7_NoThrow == ~thrown

\* The sum of the x (f = 1) or y (f = 2) positions of the first n nodes.
RECURSIVE PositionTotal(_, _)
PositionTotal(f, n) ==
    IF n = 0
    THEN 0
    ELSE (IF f = 1 THEN bodies[nodes[n].body].position.x
                   ELSE bodies[nodes[n].body].position.y) + PositionTotal(f, n - 1)

\* c is the mean of the node positions, the origin when there are none.
IsMean(c) ==
    /\ c.x.den # 0 /\ c.y.den # 0
    /\ Len(nodes) = 0 => (c.x.num = 0 /\ c.y.num = 0)
    /\ Len(nodes) = 1 =>
          /\ c.x = Ratio(bodies[nodes[1].body].position.x, 1)
          /\ c.y = Ratio(bodies[nodes[1].body].position.y, 1)
    /\ Len(nodes) > 0 =>
          /\ c.x.num * Len(nodes) = PositionTotal(1, Len(nodes)) * c.x.den
          /\ c.y.num * Len(nodes) = PositionTotal(2, Len(nodes)) * c.y.den

\* C9: getCentroid returns the origin for no nodes, the position of the only
\* node, in general the mean of the positions, and changes no state.
C9_Centroid ==
    [][lastOp' = "getCentroid" =>
         /\ UNCHANGED simVars
         /\ \A c \in returned' : IsMean(c)
         /\ returned' # {}]_vars

\* C9 witness: the centroid of two nodes at different places was returned.
C9_Witness ==
    /\ lastOp = "getCentroid"
    /\ Len(nodes) = 2
    /\ bodies[nodes[1].body].position # bodies[nodes[2].body].position
    /\ \E c \in returned : c.x.den = 2

\* Node i is farther from the point m than the interaction radius.
OutOfReach(i, m) ==
    LengthSquared(vsub(bodies[nodes[i].body].position, m.v))
        > InteractionRadius * InteractionRadius

\* C10: applyMouseInteraction changes nothing of a node farther from the
\* point than the radius, and nothing at all for an absent or NaN point.
C10_MouseFrame ==
    [][lastOp' = "applyMouseInteraction" =>
         /\ nodes' = nodes
         /\ \A m \in arg' : \A i \in 1..Len(nodes) :
              (m.null \/ m.nan \/ OutOfReach(i, m)) =>
                  bodies'[nodes[i].body] = bodies[nodes[i].body]]_vars

\* C10 witness: a call with a point left one node out of reach untouched and
\* pushed another.
C10_Witness ==
    /\ lastOp = "applyMouseInteraction"
    /\ \E m \in arg :
         /\ ~m.null /\ ~m.nan
         /\ \E i, j \in 1..Len(nodes) :
              /\ OutOfReach(i, m)
              /\ bodies[nodes[i].body].force = Zero3
              /\ bodies[nodes[j].body].force # Zero3

\* C11: a frame steps once and updates the renderer from the state that step
\* left: update follows a step with no listener in between, and a step never
\* follows a step without the update of its frame.
C11_FrameOrder ==
    [][/\ lastOp' = "update" => (lastOp = "step" /\ UNCHANGED simVars)
       /\ lastOp' = "step" => (lastOp # "step" /\ frame'.pc = "stepped")]_vars

\* C11 witness: a listener spawned nodes, then a frame stepped them and
\* updated the renderer.
C11_Witness ==
    /\ lastOp = "update"
    /\ frame = Idle
    /\ Len(nodes) >= 2
    /\ uniforms.count = Len(nodes)

\* C12: after update the count is min(nodes.length, MAX_NODES), the slots
\* below it hold the positions (and radii, 0.35 without one) of the nodes in
\* order, the other slots are as they were, and nothing is raised.
C12_Uniforms ==
    [][lastOp' = "update" =>
         LET count == IF Len(nodes) < MAX_NODES THEN Len(nodes) ELSE MAX_NODES
         IN /\ uniforms'.count = count
            /\ uniforms'.count <= MAX_NODES
            /\ DOMAIN uniforms'.uNodes = 1..MAX_NODES
            /\ \A i \in 1..count :
                 LET slot == uniforms'.uNodes[i]
                     pos == bodies[nodes[i].body].position
                 IN /\ slot.x = pos.x /\ slot.y = pos.y /\ slot.z = pos.z
                    /\ renderer = "vec4" =>
                         slot.w = (IF variant = "fade" THEN nodes[i].radius ELSE 105)
            /\ \A i \in (count + 1)..MAX_NODES : uniforms'.uNodes[i] = uniforms.uNodes[i]
            /\ ~thrown']_vars

\* C12 witness: more nodes than slots were given to update, among them a
\* faded one.
C12_Witness ==
    /\ lastOp = "update"
    /\ Len(nodes) > MAX_NODES
    /\ uniforms.count = MAX_NODES
    /\ uniforms.uNodes[1].w < 105
    /\ uniforms.uNodes[MAX_NODES].w = 105

\* C13: finalizeCluster adds and removes no node and no spring: the nodes,
\* with the cluster id each carries, and the springs are as before the call.
C13_FinalizeKeeps ==
    [][lastOp' = "finalizeCluster" =>
         /\ nodes' = nodes
         /\ springs' = springs
         /\ world' = world]_vars

\* C13 witness: finalizeCluster ran on linked nodes and moved the spawn
\* center.
C13_Witness ==
    /\ lastOp = "finalizeCluster"
    /\ Len(nodes) >= 2
    /\ Len(springs) >= 1
    /\ spawnCenter # Zero3

\* The springs of the state after addNode that start at the new body, by
\* stiffness: 10 is SPRING_STIFFNESS_LOOSE, 5 half of it.
NewSprings(stiffness) ==
    {k \in 1..Len(springs') : springs'[k].bodyA = nextBody /\ springs'[k].stiffness = stiffness}

\* The nodes of the current cluster before the call.
ClusterBefore == {i \in 1..Len(nodes) : nodes[i].clusterID = currentClusterID}

\* Every spring joins two nodes of one cluster.
SameClusterSprings ==
    \A k \in 1..Len(springs) : \A i, j \in 1..Len(nodes) :
        (nodes[i].body = springs[k].bodyA /\ nodes[j].body = springs[k].bodyB) =>
            nodes[i].clusterID = nodes[j].clusterID

\* Three spawns from empty: three nodes of cluster 0 in a chain of two springs.
ChainOfThree ==
    (Fifo /\ spawnCount = 3) =>
        /\ Len(nodes) = 3
        /\ Len(springs) = 2
        /\ \A i \in 1..3 : nodes[i].clusterID = 0
        /\ \A k \in 1..2 : springs[k].bodyA = nodes[k + 1].body /\ springs[k].bodyB = nodes[k].body

Dying == {i \in 1..Len(nodes) : nodes[i].isDying}

\* The number of nodes beyond MAX_ACTIVE_NODES.
Excess == IF Len(nodes) > MAX_ACTIVE_NODES THEN Len(nodes) - MAX_ACTIVE_NODES ELSE 0

\* C15 (as claimed): in the fade variant no more nodes are dying than the
\* list has beyond MAX_ACTIVE_NODES.
C15_OnlyExcessDying == Fade => Cardinality(Dying) <= Excess

\* Node i is dying once the step has marked: it was dying, or it is one of
\* the first Excess nodes that were not.
MarkedByStep(i) ==
    \/ nodes[i].isDying
    \/ Cardinality({j \in 1..i : ~nodes[j].isDying}) <= Excess

\* The nodes as a step of dt ticks fades them, none removed yet.
FadedBy(dt) ==
    [i \in 1..Len(nodes) |->
        IF MarkedByStep(i)
        THEN [nodes[i] EXCEPT !.isDying = TRUE, !.radius = @ - dt]
        ELSE nodes[i]]

StillVisible(node) == node.radius > 0

\* C16: a step of the fade variant changes the radius of dying nodes only,
\* removes exactly the nodes whose radius it brought to zero or below, keeps
\* the others in order, and removes the springs of the removed nodes and no
\* other; no node is left with a radius of zero or less.
C16_FadeRemoval ==
    [][(Fade /\ lastOp' = "step") =>
         \A dt \in arg' :
            /\ nodes' = SelectSeq(FadedBy(dt), StillVisible)
            /\ \A i \in 1..Len(nodes') : nodes'[i].radius > 0
            /\ LET Kept(spring) == /\ spring.bodyA \in NodeBodies(nodes')
                                   /\ spring.bodyB \in NodeBodies(nodes')
               IN springs' = SelectSeq(springs, Kept)]_vars

\* C16 witness: a step removed two faded nodes at once and left two dying
\* ones, still visible, before a node that is not dying.
C16_Witness ==
    /\ Fade
    /\ lastOp = "step"
    /\ spawnCount = Len(nodes) + 2
    /\ Len(nodes) = 3
    /\ nodes[1].isDying /\ nodes[1].radius < 105
    /\ ~nodes[3].isDying /\ nodes[3].radius = 105

\* C17: in the fade variant, with frames that keep stepping, a list longer
\* than MAX_ACTIVE_NODES is eventually no longer than MAX_ACTIVE_NODES.
C17_Recovers == (Fade /\ Excess > 0) ~> (Excess = 0)

\* C17 witness: every node the behaviour may spawn was spawned, the frames
\* went on beyond the one step of the budget (more than a second of frames
\* was drawn), and the list is within MAX_ACTIVE_NODES again.
C17_Witness ==
    /\ Fade
    /\ spawnCount = MAX_ACTIVE_NODES + 1
    /\ ~Has("step")
    /\ uniforms.uTime > 60
    /\ Len(nodes) = MAX_ACTIVE_NODES
    /\ Excess = 0

\* C18: in the fade variant the list of nodes is never longer than
\* MAX_ACTIVE_NODES once an operation has returned.
C18_FadeWithinCapacity == Fade => Len(nodes) <= MAX_ACTIVE_NODES

\* C19: a step of the FIFO variant applies the force of every spring before
\* the integration that moves the nodes and clears the forces, never after
\* it: when step returns, no spring force is left on the body of a node.
C19_SpringsBeforeIntegration ==
    (Fifo /\ lastOp = "step") =>
        \A i \in 1..Len(springs) :
            /\ bodies[springs[i].bodyA].force = Zero3
            /\ bodies[springs[i].bodyB].force = Zero3

\* The squared distance of node i from the point m.
DistSqOf(i, m) == LengthSquared(vsub(bodies[nodes[i].body].position, m.v))

\* The force the call added to the body of node i.
Pushed(i) == vsub(bodies'[nodes[i].body].force, bodies[nodes[i].body].force)

\* f points from the point m to node i: along their axis up to the rounding
\* of the components, and away from the point.
AwayFrom(f, i, m) ==
    LET r == vsub(bodies[nodes[i].body].position, m.v)
        cross == f.x * r.y - f.y * r.x
        slack == (IF r.x >= 0 THEN r.x ELSE -r.x) + (IF r.y >= 0 THEN r.y ELSE -r.y)
    IN /\ f.z = 0 /\ r.z = 0
       /\ f.x * r.x >= 0
       /\ f.y * r.y >= 0
       /\ f.x * r.x + f.y * r.y > 0
       /\ cross <= slack /\ -cross <= slack

\* The length of f is strength * (1 - dist / radius), compared in hundredths
\* of a unit of force: the root is truncated and so is each component.
ScaledByDistance(f, i, m) ==
    LET dist == Isqrt(DistSqOf(i, m))
        expected == 2 * (InteractionRadius - dist)
        length == Isqrt(LengthSquared(ScaleQuot(f, 1, 100)))
    IN /\ length >= expected - 3
       /\ length * dist <= expected * (dist + 1)

\* C20 (amended): applyMouseInteraction with a valid point pushes every node
\* whose squared distance from the point is under the squared radius and
\* over 0.001, away from the point and scaled by 1 - distance / radius; a
\* node at or nearer than that, or out of the radius, gets no force.
C20_MouseForce ==
    [][lastOp' = "applyMouseInteraction" =>
         \A m \in arg' : (~m.null /\ ~m.nan) =>
             \A i \in 1..Len(nodes) :
                 IF DistSqOf(i, m) < InteractionRadius * InteractionRadius
                    /\ DistSqOf(i, m) > 10
                 THEN /\ AwayFrom(Pushed(i), i, m)
                      /\ ScaledByDistance(Pushed(i), i, m)
                 ELSE Pushed(i) = Zero3]_vars

\* C20 as stated: every node within the radius is pushed, the nodes at the
\* point or very close to it included.
C20_EveryNodeInRadius ==
    [][lastOp' = "applyMouseInteraction" =>
         \A m \in arg' : (~m.null /\ ~m.nan) =>
             \A i \in 1..Len(nodes) :
                 DistSqOf(i, m) < InteractionRadius * InteractionRadius =>
                     Pushed(i) # Zero3]_vars

\* C20 witness: a call with a valid point pushed a node within the radius
\* and left a node that sits on the point alone.
C20_Witness ==
    /\ lastOp = "applyMouseInteraction"
    /\ \E m \in arg :
         /\ ~m.null /\ ~m.nan
         /\ \E i, j \in 1..Len(nodes) :
              /\ DistSqOf(i, m) > 10
              /\ DistSqOf(i, m) < InteractionRadius * InteractionRadius
              /\ bodies[nodes[i].body].force # Zero3
              /\ DistSqOf(j, m) <= 10
              /\ bodies[nodes[j].body].force = Zero3

\* C21: reset returns the elapsed time to 0, so that the time the next steps
\* use is the sum of their own dt: right after reset, this.time is 0.
C21_ResetRewindsTime == (Fifo /\ lastOp = "reset") => time = 0

\* What a renderer that was just constructed holds after the update call the
\* step to the next state makes: the same code on the same arguments, with
\* no history of calls.
FreshlyUpdated == update(NewUniforms(renderer), renderer, bodies, nodes, frame.deltaTime)

\* C22 (amended): of what update leaves in the uniforms, the count and the
\* slots below it are determined by the arguments of the call alone; uTime
\* is the uTime of the call before plus dt, and the slots from the count on
\* are what earlier calls stored there.
C22_RebuiltBelowCount ==
    [][lastOp' = "update" =>
         /\ uniforms'.count = FreshlyUpdated.count
         /\ \A i \in 1..uniforms'.count : uniforms'.uNodes[i] = FreshlyUpdated.uNodes[i]
         /\ uniforms'.uTime = uniforms.uTime + FreshlyUpdated.uTime
         /\ \A i \in (uniforms'.count + 1)..MAX_NODES :
              uniforms'.uNodes[i] = uniforms.uNodes[i]]_vars

\* C22 as stated: the uniforms after update are determined by the arguments
\* of that call alone, so they are those of a renderer with no history.
C22_NoIndependentState ==
    [][lastOp' = "update" => uniforms' = FreshlyUpdated]_vars

\* C22 witness: after an update that followed an earlier one, uTime is more
\* than the dt of the call and a slot from the count on still holds a node
\* of an earlier call.
C22_Witness ==
    /\ lastOp = "update"
    /\ \A dt \in arg : uniforms.uTime > dt
    /\ uniforms.count < MAX_NODES
    /\ uniforms.uNodes[uniforms.count + 1] # EmptySlot(renderer)

\* C23: the spawn center never leaves the visible region: |spawnCenter.x| <= 14
\* and |spawnCenter.y| <= 10 in every reachable state.
C23_SpawnCenterVisible ==
    /\ spawnCenter.x <= 1400 /\ spawnCenter.x >= -1400
    /\ spawnCenter.y <= 1000 /\ spawnCenter.y >= -1000
    /\ spawnCenter.z = 0

\* C23 witness: a second sample of 7.5 to the left of a center at x = -7.5
\* went over the left edge (x = -15) and the clamp brought it back by 1.5
\* times the distance.
C23_Witness ==
    /\ Fifo
    /\ lastOp = "finalizeCluster"
    /\ spawnCenter = Vec3(-375, 0, 0)

\* C24: in both variants the bodies registered in the physics world are
\* exactly the bodies of the nodes of the list, after every operation.
C24_WorldIsNodes == world = NodeBodies(nodes)

\* C24 witness: a step of the fade variant removed a faded node and left
\* others, and a later addNode registered one more body.
C24_Witness ==
    /\ Fade
    /\ lastOp = "addNode"
    /\ Len(nodes) >= 2
    /\ Len(nodes) < spawnCount
    /\ Cardinality(world) = Len(nodes)

\* Node j of the next state is node i of this one.
SameNode(i, j) == nodes'[j].body = nodes[i].body

\* Node i of this state is no longer in the list of the next one.
Destroyed(i) == \A j \in 1..Len(nodes') : ~SameNode(i, j)

\* C25: in the fade variant the list is in spawn order, a dying node has only
\* dying nodes before it, none of them with a larger radius; a dying node
\* that stays in the list stays dying, and a node is destroyed only together
\* with or after every node spawned before it.
C25_DyingPrefix ==
    /\ [](Fade =>
            \A i, j \in 1..Len(nodes) :
                i < j =>
                    /\ nodes[i].body < nodes[j].body
                    /\ nodes[j].isDying =>
                         (nodes[i].isDying /\ nodes[i].radius <= nodes[j].radius))
    /\ [][Fade =>
            \A i \in 1..Len(nodes) :
                /\ \A j \in 1..Len(nodes') :
                     (SameNode(i, j) /\ nodes[i].isDying) => nodes'[j].isDying
                /\ Destroyed(i) => \A k \in 1..(i - 1) : Destroyed(k)]_vars

\* C25 witness: two dying nodes, the older one more faded, with a node that
\* is not dying after them, right after a step.
C25_Witness ==
    /\ Fade
    /\ lastOp = "step"
    /\ Len(nodes) >= 3
    /\ nodes[1].isDying /\ nodes[2].isDying
    /\ nodes[1].radius < nodes[2].radius
    /\ ~nodes[3].isDying

====
